---- MODULE Spec2Model ----
(***************************************************************************)
(* The image-fixing client (src/unnamed/part_000, a Next.js page): one     *)
(* React component whose state is six useState cells, driven by user       *)
(* events, FileReader/Image callbacks and the responses of two fetch       *)
(* calls.  Every event handler and every continuation after an await runs  *)
(* to completion, so each is one action here.                              *)
(***************************************************************************)
EXTENDS Integers, Sequences, FiniteSets, TLC

\* ------------------------------------------------------------------ bounds
\* files the user may drop over one run
MaxUploads == 2
\* dropped files being read at one time
MaxReaders == 1
\* check_image requests sent over one run
MaxChecks == 2
\* process-image requests sent over one run
MaxProcesses == 2

\* ------------------------------------------------- nullable values (T | null)
NULL == <<>>
Some(x) == <<x>>
The(o) == o[1]

\* --------------------------------------------------------------- arithmetic
\* JavaScript numbers are IEEE-754 binary64.  The non-negative integers the
\* arithmetic below needs exceed TLC's integers, so they are held as base-2^15
\* limbs, least significant first; a double is [m, e] standing for m * 2^e
\* with m a Mantissa-bit integer.
LimbBits == 15
Base == 2 ^ LimbBits
Mantissa == 53

RECURSIVE Limbs(_)
Limbs(n) == IF n = 0 THEN <<>> ELSE <<n % Base>> \o Limbs(n \div Base)

RECURSIVE Val(_)
Val(x) == IF x = <<>> THEN 0 ELSE x[1] + Base * Val(Tail(x))

Limb(x, i) == IF i <= Len(x) THEN x[i] ELSE 0

MaxOf(a, b) == IF a >= b THEN a ELSE b

RECURSIVE GeqFrom(_, _, _)
GeqFrom(x, y, i) ==
    IF i = 0 THEN TRUE
    ELSE IF Limb(x, i) > Limb(y, i) THEN TRUE
    ELSE IF Limb(x, i) < Limb(y, i) THEN FALSE
    ELSE GeqFrom(x, y, i - 1)

Geq(x, y) == GeqFrom(x, y, MaxOf(Len(x), Len(y)))

RECURSIVE SubFrom(_, _, _, _)
SubFrom(x, y, i, borrow) ==
    IF i > Len(x) THEN <<>>
    ELSE LET d == Limb(x, i) - Limb(y, i) - borrow
         IN  <<d % Base>> \o SubFrom(x, y, i + 1, IF d < 0 THEN 1 ELSE 0)

Sub(x, y) == SubFrom(x, y, 1, 0)

RECURSIVE TimesFrom(_, _, _, _)
TimesFrom(x, k, i, carry) ==
    IF i > Len(x) THEN Limbs(carry)
    ELSE LET t == x[i] * k + carry
         IN  <<t % Base>> \o TimesFrom(x, k, i + 1, t \div Base)

Times(x, k) == TimesFrom(x, k, 1, 0)

Dbl(x) == Times(x, 2)

RECURSIVE Inc(_)
Inc(x) ==
    IF x = <<>> THEN <<1>>
    ELSE IF x[1] < Base - 1 THEN <<x[1] + 1>> \o Tail(x)
    ELSE <<0>> \o Inc(Tail(x))

RECURSIVE HalveFrom(_, _)
HalveFrom(x, i) ==
    IF i > Len(x) THEN <<>>
    ELSE <<(x[i] \div 2) + (Limb(x, i + 1) % 2) * (Base \div 2)>> \o HalveFrom(x, i + 1)

Halve(x) == HalveFrom(x, 1)

RECURSIVE HalveN(_, _)
HalveN(x, n) == IF n = 0 THEN x ELSE HalveN(Halve(x), n - 1)

ShiftRight(x, s) ==
    LET whole == s \div LimbBits
    IN  IF whole >= Len(x) THEN <<>>
        ELSE HalveN(SubSeq(x, whole + 1, Len(x)), s % LimbBits)

Odd(x) == Limb(x, 1) % 2 = 1

\* n/d brought to d <= n < 2d by doubling one of them; k counts the doublings
Scaling == [n : Seq(Nat), d : Seq(Nat), k : Int]

Scale[s \in Scaling] ==
    IF ~Geq(s.n, s.d) THEN Scale[[n |-> Dbl(s.n), d |-> s.d, k |-> s.k - 1]]
    ELSE IF Geq(s.n, Dbl(s.d)) THEN Scale[[n |-> s.n, d |-> Dbl(s.d), k |-> s.k + 1]]
    ELSE s

\* binary long division: one quotient bit per step
Division == [q : Seq(Nat), r : Seq(Nat), d : Seq(Nat), left : Nat]

QuotientBits[s \in Division] ==
    IF s.left = 0 THEN s
    ELSE LET r2 == Dbl(s.r)
         IN  IF Geq(r2, s.d)
             THEN QuotientBits[[q |-> Inc(Dbl(s.q)), r |-> Sub(r2, s.d), d |-> s.d, left |-> s.left - 1]]
             ELSE QuotientBits[[q |-> Dbl(s.q), r |-> r2, d |-> s.d, left |-> s.left - 1]]

\* the double nearest to n/d, ties to the even mantissa (IEEE round-to-nearest)
RoundedQuotient(n, d) ==
    LET s  == Scale[[n |-> n, d |-> d, k |-> 0]]
        qr == QuotientBits[[q |-> <<1>>, r |-> Sub(s.n, s.d), d |-> s.d, left |-> Mantissa - 1]]
        r2 == Dbl(qr.r)
        up == Geq(r2, s.d) /\ (~Geq(s.d, r2) \/ Odd(qr.q))
    IN  [m |-> IF up THEN Inc(qr.q) ELSE qr.q, e |-> s.k - (Mantissa - 1)]

\* a / b, a * x and a / x as the `/` and `*` of two numbers compute them
IntDivInt(a, b) == RoundedQuotient(Limbs(a), Limbs(b))

IntDivDouble(v, x) ==
    LET q == RoundedQuotient(Limbs(v), x.m) IN [m |-> q.m, e |-> q.e - x.e]

IntTimesDouble(v, x) ==
    LET p == RoundedQuotient(Times(x.m, v), <<1>>) IN [m |-> p.m, e |-> p.e + x.e]

\* Math.round: the nearest integer, a tie going up
MathRound(x) ==
    IF x.e >= 0 THEN Val(x.m) * (2 ^ x.e)
    ELSE LET t == ShiftRight(x.m, (-x.e) - 1)
         IN  Val(Halve(t)) + (IF Odd(t) THEN 1 ELSE 0)


\* ------------------------------------------------------------------- inputs
\* what a dropped file decodes to: its name and its natural pixel size
Images ==
    { [name |-> <<"a", "png">>, width |-> 2000, height |-> 1000],
      [name |-> <<"b", "jpg">>, width |-> 1400, height |-> 300],
      [name |-> <<"c", "webp">>, width |-> 300, height |-> 1400],
      [name |-> <<"d", "bmp">>, width |-> 1200, height |-> 1200] }

NaturalSizes == { [width |-> i.width, height |-> i.height] : i \in Images }

\* what the user types into a Target Size input: 0 stands for every text
\* parseInt reads as 0 or NaN; the others are within the inputs' min and max
TypedValues == {0, 1, 35, 400, 800, 1200, 5000}

Fields == {"width", "height"}

\* pass/fail triples the check service answers with
CheckOutcomes ==
    { [background_check |-> b, dimension_check |-> d, alignment_check |-> a] :
        b \in BOOLEAN, d \in BOOLEAN, a \in BOOLEAN }

\* status and body of a non-success response
ErrorResponses == { [status |-> "500", body |-> "server error"],
                    [status |-> "422", body |-> "bad image"] }

\* pixel sizes the processed image decodes to
OutputSizes == { [width |-> 800, height |-> 400], [width |-> 1024, height |-> 768] }

\* -------------------------------------------------------------------- state
VARIABLES
    originalImage,       \* useState<OriginalImage | null>
    originalDimensions,  \* useState<{width, height} | null>
    dimensions,          \* useState<DimensionSettings>
    state,               \* useState<ProcessingState>
    checkState,          \* useState<CheckState>
    fixOptions,          \* useState<FixOptions>
    readers,             \* dropped files whose FileReader / Image has not called back
    checkCalls,          \* check_image requests awaiting their response
    processCalls,        \* process-image requests awaiting their response
    decoding,            \* processed blobs whose Image has not called back
    urls,                \* object URLs created so far -> times revoked
    nUploads, nChecks, nProcesses,  \* files dropped and requests sent so far
    resultsFrom,         \* history: the request whose response checkState.results is
    artifactFrom,        \* history: the request whose response state.processedImage is
    lastEvent            \* history: the handler or callback that ran last

component == <<originalImage, originalDimensions, dimensions, state, checkState, fixOptions>>
inFlight == <<readers, checkCalls, processCalls, decoding>>
counters == <<nUploads, nChecks, nProcesses>>
origins == <<resultsFrom, artifactFrom>>
vars == <<component, inFlight, urls, counters, origins, lastEvent>>

Event(op) == [op |-> op, field |-> "", value |-> 0]

DefaultDimensions == [width |-> 1200, height |-> 1200]

IdleState ==
    [isProcessing |-> FALSE, error |-> NULL,
     processedImage |-> NULL, processedImageDimensions |-> NULL]

IdleCheckState == [isChecking |-> FALSE, error |-> NULL, results |-> NULL]

AllFixes == [fix_dimensions |-> TRUE, fix_background |-> TRUE, fix_alignment |-> TRUE]

NoFixes == [fix_dimensions |-> FALSE, fix_background |-> FALSE, fix_alignment |-> FALSE]

Init ==
    /\ originalImage = NULL
    /\ originalDimensions = NULL
    /\ dimensions = DefaultDimensions
    /\ state = IdleState
    /\ checkState = IdleCheckState
    /\ fixOptions = AllFixes
    /\ readers = {}
    /\ checkCalls = {}
    /\ processCalls = {}
    /\ decoding = {}
    /\ urls = <<>>
    /\ nUploads = 0
    /\ nChecks = 0
    /\ nProcesses = 0
    /\ resultsFrom = NULL
    /\ artifactFrom = NULL
    /\ lastEvent = Event("mount")

\* ------------------------------------------------------------------- upload
\* the upload area is rendered only while no image is loaded
UploadAreaShown == originalImage = NULL

onDropRejected ==
    /\ UploadAreaShown
    /\ state' = [state EXCEPT !.error = Some(<<"Please upload a valid image file">>)]
    /\ lastEvent' = Event("onDrop:rejected")
    /\ UNCHANGED <<originalImage, originalDimensions, dimensions, checkState, fixOptions,
                   inFlight, urls, counters, origins>>

onDropAccepted(image) ==
    /\ UploadAreaShown
    /\ nUploads < MaxUploads
    /\ Cardinality(readers) < MaxReaders
    /\ nUploads' = nUploads + 1
    /\ readers' = readers \cup
           { [id |-> nUploads + 1, name |-> image.name,
              natural |-> [width |-> image.width, height |-> image.height]] }
    /\ lastEvent' = Event("onDrop:accepted")
    /\ UNCHANGED <<component, checkCalls, processCalls, decoding, urls,
                   nChecks, nProcesses, origins>>

\* fault: the upload leaves the check state as it finds it
imgOnload_keepingCheckState(file) ==
    /\ file \in readers
    /\ readers' = readers \ {file}
    /\ originalImage' = Some([file |-> file, preview |-> file.id])
    /\ originalDimensions' = Some(file.natural)
    /\ dimensions' = DefaultDimensions
    /\ state' = IdleState
    /\ fixOptions' = AllFixes
    /\ artifactFrom' = NULL
    /\ lastEvent' = Event("onDrop:loaded")
    /\ UNCHANGED <<checkState, resultsFrom, checkCalls, processCalls, decoding, urls, counters>>

\* reader.onload, then img.onload
imgOnload(file) ==
    /\ file \in readers
    /\ readers' = readers \ {file}
    /\ originalImage' = Some([file |-> file, preview |-> file.id])
    /\ originalDimensions' = Some(file.natural)
    /\ dimensions' = DefaultDimensions
    /\ state' = IdleState
    /\ checkState' = IdleCheckState
    /\ fixOptions' = AllFixes
    /\ resultsFrom' = NULL
    /\ artifactFrom' = NULL
    /\ lastEvent' = Event("onDrop:loaded")
    /\ UNCHANGED <<checkCalls, processCalls, decoding, urls, counters>>

\* the file does not decode: neither reader.onerror nor img.onerror is set
imgUndecodable(file) ==
    /\ file \in readers
    /\ readers' = readers \ {file}
    /\ lastEvent' = Event("onDrop:undecodable")
    /\ UNCHANGED <<component, checkCalls, processCalls, decoding, urls, counters, origins>>

\* --------------------------------------------------------- dimension editor
\* parseInt(e.target.value) || 1
ParsedOrOne(typed) == IF typed = 0 THEN 1 ELSE typed

EnteredValues == { ParsedOrOne(typed) : typed \in TypedValues }

\* fault: the height edit divides by the aspect ratio
LockedRatio_inverted ==
    [natural \in NaturalSizes, field \in Fields, value \in EnteredValues |->
        LET aspectRatio == IntDivInt(natural.width, natural.height)
        IN  IF field = "width"
            THEN [width |-> value, height |-> MathRound(IntDivDouble(value, aspectRatio))]
            ELSE [width |-> MathRound(IntDivDouble(value, aspectRatio)), height |-> value]]

\* the pair the locked-ratio branch stores, tabulated over the natural sizes
\* and entries above
LockedRatio ==
    [natural \in NaturalSizes, field \in Fields, value \in EnteredValues |->
        LET aspectRatio == IntDivInt(natural.width, natural.height)
        IN  IF field = "width"
            THEN [width |-> value, height |-> MathRound(IntDivDouble(value, aspectRatio))]
            ELSE [width |-> MathRound(IntTimesDouble(value, aspectRatio)), height |-> value]]

\* fault: without an image the edit starts from the default pair
handleDimensionChange_fromDefault(field, value) ==
    IF originalDimensions # NULL
    THEN LockedRatio[The(originalDimensions), field, value]
    ELSE [DefaultDimensions EXCEPT ![field] = value]

\* fault: the other field is not recomputed
handleDimensionChange_unlocked(field, value) == [dimensions EXCEPT ![field] = value]

handleDimensionChange(field, value) ==
    IF originalDimensions # NULL
    THEN LockedRatio[The(originalDimensions), field, value]
    ELSE [dimensions EXCEPT ![field] = value]

\* fault: an edit of the target size also forgets the check results
ChangeDimension_clearingResults(field, typed) ==
    /\ originalImage # NULL
    /\ dimensions' = handleDimensionChange(field, ParsedOrOne(typed))
    /\ checkState' = [checkState EXCEPT !.results = NULL]
    /\ resultsFrom' = NULL
    /\ lastEvent' = [op |-> "handleDimensionChange", field |-> field, value |-> ParsedOrOne(typed)]
    /\ UNCHANGED <<originalImage, originalDimensions, state, fixOptions,
                   inFlight, urls, counters, artifactFrom>>

\* the Target Size inputs are rendered only while an image is loaded
ChangeDimension(field, typed) ==
    /\ originalImage # NULL
    /\ dimensions' = handleDimensionChange(field, ParsedOrOne(typed))
    /\ lastEvent' = [op |-> "handleDimensionChange", field |-> field, value |-> ParsedOrOne(typed)]
    /\ UNCHANGED <<originalImage, originalDimensions, state, checkState, fixOptions,
                   inFlight, urls, counters, origins>>

\* -------------------------------------------------------------------- check
\* fault: the action buttons are rendered only while nothing is running
ButtonsShown_whenIdle ==
    originalImage # NULL /\ ~checkState.isChecking /\ ~state.isProcessing

\* the action buttons are rendered only while an image is loaded
ButtonsShown == originalImage # NULL

\* disabled={checkState.isChecking}
CheckButtonEnabled == ButtonsShown /\ ~checkState.isChecking

\* checkImage up to its await: the guard, the flag and the request
checkImage ==
    /\ originalImage # NULL
    /\ checkState' = [checkState EXCEPT !.isChecking = TRUE, !.error = NULL]
    /\ checkCalls' = checkCalls \cup
           { [id |-> nChecks + 1, file |-> The(originalImage).file,
              target_width |-> dimensions.width, target_height |-> dimensions.height] }
    /\ nChecks' = nChecks + 1
    /\ lastEvent' = Event("checkImage")
    /\ UNCHANGED <<originalImage, originalDimensions, dimensions, state, fixOptions,
                   readers, processCalls, decoding, urls, nUploads, nProcesses, origins>>

ClickCheck ==
    /\ CheckButtonEnabled
    /\ nChecks < MaxChecks
    /\ checkImage

\* the JSON body the service answers a request with
CheckResponse(call, outcome) ==
    [background_check |-> outcome.background_check,
     dimension_check |-> outcome.dimension_check,
     alignment_check |-> outcome.alignment_check,
     target_dimensions |-> [width |-> call.target_width, height |-> call.target_height]]

\* fault: the dimension fix follows the check instead of negating it
AutoSelected_followingDimension(results) ==
    [fix_dimensions |-> results.dimension_check,
     fix_background |-> ~results.background_check,
     fix_alignment |-> ~results.alignment_check]

\* "Auto-select fixes for failed checks, keep successful ones unchecked"
AutoSelected(results) ==
    [fix_dimensions |-> ~results.dimension_check,
     fix_background |-> ~results.background_check,
     fix_alignment |-> ~results.alignment_check]

\* checkImage after its awaits, the response being ok and a result object
checkImageOk(call, outcome) ==
    /\ call \in checkCalls
    /\ checkCalls' = checkCalls \ {call}
    /\ checkState' = [checkState EXCEPT !.isChecking = FALSE,
                                        !.results = Some(CheckResponse(call, outcome))]
    /\ fixOptions' = AutoSelected(CheckResponse(call, outcome))
    /\ resultsFrom' = Some(call)
    /\ lastEvent' = Event("checkImage:ok")
    /\ UNCHANGED <<originalImage, originalDimensions, dimensions, state,
                   readers, processCalls, decoding, urls, counters, artifactFrom>>

\* fault: the catch block also forgets the stored results
checkCatch_droppingResults(message) ==
    [checkState EXCEPT !.isChecking = FALSE, !.error = Some(message), !.results = NULL]

\* the catch block of checkImage
checkCatch(message) ==
    [checkState EXCEPT !.isChecking = FALSE, !.error = Some(message)]

\* throw new Error(`Check failed: ${response.status} - ${errorText}`)
CheckFailedError(response) == <<"Check failed: ", response.status, " - ", response.body>>

\* fault: a check that is not ok is sent again
checkImageNotOk_retrying(call, response) ==
    /\ call \in checkCalls
    /\ checkCalls' = (checkCalls \ {call}) \cup {[call EXCEPT !.id = nChecks + 1]}
    /\ nChecks' = nChecks + 1
    /\ checkState' = checkCatch(CheckFailedError(response))
    /\ lastEvent' = Event("checkImage:notOk")
    /\ UNCHANGED <<originalImage, originalDimensions, dimensions, state, fixOptions,
                   readers, processCalls, decoding, urls, nUploads, nProcesses, origins>>

\* the response is not ok
checkImageNotOk(call, response) ==
    /\ call \in checkCalls
    /\ checkCalls' = checkCalls \ {call}
    /\ checkState' = checkCatch(CheckFailedError(response))
    /\ lastEvent' = Event("checkImage:notOk")
    /\ UNCHANGED <<originalImage, originalDimensions, dimensions, state, fixOptions,
                   readers, processCalls, decoding, urls, counters, origins>>

\* fetch rejects: no response at all
checkImageNetworkError(call) ==
    /\ call \in checkCalls
    /\ checkCalls' = checkCalls \ {call}
    /\ checkState' = checkCatch(<<"Failed to fetch">>)
    /\ lastEvent' = Event("checkImage:networkError")
    /\ UNCHANGED <<originalImage, originalDimensions, dimensions, state, fixOptions,
                   readers, processCalls, decoding, urls, counters, origins>>

\* the response is ok and response.json() throws: its body is no JSON
checkImageUnparsable(call) ==
    /\ call \in checkCalls
    /\ checkCalls' = checkCalls \ {call}
    /\ checkState' = checkCatch(<<"Unexpected token < in JSON at position 0">>)
    /\ lastEvent' = Event("checkImage:unparsable")
    /\ UNCHANGED <<originalImage, originalDimensions, dimensions, state, fixOptions,
                   readers, processCalls, decoding, urls, counters, origins>>

\* the response is ok and its body is the JSON null: null is stored as the
\* results, then reading results.dimension_check throws into the catch block
checkImageNullBody(call) ==
    /\ call \in checkCalls
    /\ checkCalls' = checkCalls \ {call}
    /\ checkState' = [checkState EXCEPT !.isChecking = FALSE, !.results = NULL,
                         !.error = Some(<<"Cannot read properties of null">>)]
    /\ resultsFrom' = NULL
    /\ lastEvent' = Event("checkImage:nullBody")
    /\ UNCHANGED <<originalImage, originalDimensions, dimensions, state, fixOptions,
                   readers, processCalls, decoding, urls, counters, artifactFrom>>

\* ------------------------------------------------------------ fix selection
\* the checkboxes and quick actions are rendered only with results
FixControlsShown == originalImage # NULL /\ checkState.results # NULL

FixCategories == {"fix_dimensions", "fix_background", "fix_alignment"}

\* fault: a checkbox's onChange builds the selection afresh, without ...prev
ToggleFix_withoutPrev(category) ==
    /\ FixControlsShown
    /\ fixOptions' = [NoFixes EXCEPT ![category] = ~fixOptions[category]]
    /\ lastEvent' = [Event("toggleFix") EXCEPT !.field = category]
    /\ UNCHANGED <<originalImage, originalDimensions, dimensions, state, checkState,
                   inFlight, urls, counters, origins>>

\* a checkbox's onChange; e.target.checked is the opposite of what is shown
ToggleFix(category) ==
    /\ FixControlsShown
    /\ fixOptions' = [fixOptions EXCEPT ![category] = ~fixOptions[category]]
    /\ lastEvent' = [Event("toggleFix") EXCEPT !.field = category]
    /\ UNCHANGED <<originalImage, originalDimensions, dimensions, state, checkState,
                   inFlight, urls, counters, origins>>

SelectAll ==
    /\ FixControlsShown
    /\ fixOptions' = AllFixes
    /\ lastEvent' = Event("selectAll")
    /\ UNCHANGED <<originalImage, originalDimensions, dimensions, state, checkState,
                   inFlight, urls, counters, origins>>

SelectNone ==
    /\ FixControlsShown
    /\ fixOptions' = NoFixes
    /\ lastEvent' = Event("selectNone")
    /\ UNCHANGED <<originalImage, originalDimensions, dimensions, state, checkState,
                   inFlight, urls, counters, origins>>

\* fault: Only Failed selects the fix of a passed dimension check
OnlyFailed_followingDimension(results) ==
    [fix_dimensions |-> results.dimension_check,
     fix_background |-> ~results.background_check,
     fix_alignment |-> ~results.alignment_check]

\* the Only Failed quick action
OnlyFailed(results) ==
    [fix_dimensions |-> ~results.dimension_check,
     fix_background |-> ~results.background_check,
     fix_alignment |-> ~results.alignment_check]

SelectOnlyFailed ==
    /\ FixControlsShown
    /\ fixOptions' = OnlyFailed(The(checkState.results))
    /\ lastEvent' = Event("selectOnlyFailed")
    /\ UNCHANGED <<originalImage, originalDimensions, dimensions, state, checkState,
                   inFlight, urls, counters, origins>>

\* ------------------------------------------------------------------ process
\* fault: the button is disabled only while processing
ProcessButtonEnabled_withoutResults == ButtonsShown /\ ~state.isProcessing

\* disabled={state.isProcessing || !checkState.results}
ProcessButtonEnabled ==
    ButtonsShown /\ ~(state.isProcessing \/ checkState.results = NULL)

\* processImage's own guard: a call goes on to send a request exactly when
\* this holds
ProcessImageProceeds == originalImage # NULL

\* fault: the request carries the default target size
processImage_defaultSize ==
    /\ ProcessImageProceeds
    /\ state' = [state EXCEPT !.isProcessing = TRUE, !.error = NULL]
    /\ processCalls' = processCalls \cup
           { [id |-> nProcesses + 1, file |-> The(originalImage).file,
              fix_dimensions |-> fixOptions.fix_dimensions,
              fix_background |-> fixOptions.fix_background,
              fix_alignment |-> fixOptions.fix_alignment,
              target_width |-> DefaultDimensions.width,
              target_height |-> DefaultDimensions.height,
              shown |-> state.processedImage] }
    /\ nProcesses' = nProcesses + 1
    /\ lastEvent' = Event("processImage")
    /\ UNCHANGED <<originalImage, originalDimensions, dimensions, checkState, fixOptions,
                   readers, checkCalls, decoding, urls, nUploads, nChecks, origins>>

\* processImage up to its await: the guard, the flag and the request
\* (history: shown is the artifact on display when the request is sent)
processImage ==
    /\ ProcessImageProceeds
    /\ state' = [state EXCEPT !.isProcessing = TRUE, !.error = NULL]
    /\ processCalls' = processCalls \cup
           { [id |-> nProcesses + 1, file |-> The(originalImage).file,
              fix_dimensions |-> fixOptions.fix_dimensions,
              fix_background |-> fixOptions.fix_background,
              fix_alignment |-> fixOptions.fix_alignment,
              target_width |-> dimensions.width, target_height |-> dimensions.height,
              shown |-> state.processedImage] }
    /\ nProcesses' = nProcesses + 1
    /\ lastEvent' = Event("processImage")
    /\ UNCHANGED <<originalImage, originalDimensions, dimensions, checkState, fixOptions,
                   readers, checkCalls, decoding, urls, nUploads, nChecks, origins>>

ClickProcess ==
    /\ ProcessButtonEnabled
    /\ nProcesses < MaxProcesses
    /\ processImage

\* the response is ok: its blob gets an object URL and an Image starts decoding it
processImageOk(call) ==
    /\ call \in processCalls
    /\ processCalls' = processCalls \ {call}
    /\ urls' = (call.id :> 0) @@ urls
    /\ decoding' = decoding \cup {[url |-> call.id, call |-> call]}
    /\ lastEvent' = Event("processImage:ok")
    /\ UNCHANGED <<component, readers, checkCalls, counters, origins>>

\* fault: the catch block also drops the processed image
processCatch_droppingArtifact(message) ==
    [state EXCEPT !.isProcessing = FALSE, !.error = Some(message),
                  !.processedImage = NULL, !.processedImageDimensions = NULL]

\* the catch block of processImage
processCatch(message) ==
    [state EXCEPT !.isProcessing = FALSE, !.error = Some(message)]

\* throw new Error(`Processing failed: ${response.status} - ${errorText}`)
ProcessingFailedError(response) ==
    <<"Processing failed: ", response.status, " - ", response.body>>

\* the response is not ok
processImageNotOk(call, response) ==
    /\ call \in processCalls
    /\ processCalls' = processCalls \ {call}
    /\ state' = processCatch(ProcessingFailedError(response))
    /\ lastEvent' = Event("processImage:notOk")
    /\ UNCHANGED <<originalImage, originalDimensions, dimensions, checkState, fixOptions,
                   readers, checkCalls, decoding, urls, counters, origins>>

\* fetch rejects: no response at all
processImageNetworkError(call) ==
    /\ call \in processCalls
    /\ processCalls' = processCalls \ {call}
    /\ state' = processCatch(<<"Failed to fetch">>)
    /\ lastEvent' = Event("processImage:networkError")
    /\ UNCHANGED <<originalImage, originalDimensions, dimensions, checkState, fixOptions,
                   readers, checkCalls, decoding, urls, counters, origins>>

\* fault: the Image of the processed blob has no onerror handler
processedOnerror_unhandled(d) ==
    /\ d \in decoding
    /\ decoding' = decoding \ {d}
    /\ lastEvent' = Event("processImage:onerror")
    /\ UNCHANGED <<component, readers, checkCalls, processCalls, urls, counters, origins>>

\* fault: the size stored is the size asked for
processedOnload_targetSize(d, size) ==
    /\ d \in decoding
    /\ decoding' = decoding \ {d}
    /\ state' = [state EXCEPT !.isProcessing = FALSE,
                              !.processedImage = Some(d.url),
                              !.processedImageDimensions =
                                  Some([width |-> d.call.target_width,
                                        height |-> d.call.target_height])]
    /\ artifactFrom' = Some(d.call)
    /\ lastEvent' = Event("processImage:onload")
    /\ UNCHANGED <<originalImage, originalDimensions, dimensions, checkState, fixOptions,
                   readers, checkCalls, processCalls, urls, counters, resultsFrom>>

\* fault: storing the processed image selects every fix again
processedOnload_resettingFixes(d, size) ==
    /\ d \in decoding
    /\ decoding' = decoding \ {d}
    /\ state' = [state EXCEPT !.isProcessing = FALSE,
                              !.processedImage = Some(d.url),
                              !.processedImageDimensions = Some(size)]
    /\ fixOptions' = AllFixes
    /\ artifactFrom' = Some(d.call)
    /\ lastEvent' = Event("processImage:onload")
    /\ UNCHANGED <<originalImage, originalDimensions, dimensions, checkState,
                   readers, checkCalls, processCalls, urls, counters, resultsFrom>>

\* img.onload of the processed image
processedOnload(d, size) ==
    /\ d \in decoding
    /\ decoding' = decoding \ {d}
    /\ state' = [state EXCEPT !.isProcessing = FALSE,
                              !.processedImage = Some(d.url),
                              !.processedImageDimensions = Some(size)]
    /\ artifactFrom' = Some(d.call)
    /\ lastEvent' = Event("processImage:onload")
    /\ UNCHANGED <<originalImage, originalDimensions, dimensions, checkState, fixOptions,
                   readers, checkCalls, processCalls, urls, counters, resultsFrom>>

\* img.onerror of the processed image
processedOnerror(d) ==
    /\ d \in decoding
    /\ decoding' = decoding \ {d}
    /\ state' = [state EXCEPT !.isProcessing = FALSE,
                              !.error = Some(<<"Failed to load processed image">>)]
    /\ lastEvent' = Event("processImage:onerror")
    /\ UNCHANGED <<originalImage, originalDimensions, dimensions, checkState, fixOptions,
                   readers, checkCalls, processCalls, urls, counters, origins>>

\* ------------------------------------------------------------ error display
\* where state.error is rendered: in the upload area while no image is
\* loaded, else in the Processed panel, which shows the processed image
\* instead whenever there is one
StateErrorShown ==
    /\ state.error # NULL
    /\ \/ originalImage = NULL
       \/ state.processedImage = NULL

\* ------------------------------------------------------- direct invocation
\* fault: the flag is raised before the guard is tested
returnEarly_afterFlag(op) ==
    /\ checkState' = [checkState EXCEPT !.isChecking = TRUE]
    /\ lastEvent' = Event(op)
    /\ UNCHANGED <<originalImage, originalDimensions, dimensions, state, fixOptions,
                   inFlight, urls, counters, origins>>

\* if (!originalImage) return
returnEarly(op) ==
    /\ lastEvent' = Event(op)
    /\ UNCHANGED <<component, inFlight, urls, counters, origins>>

\* checkImage called, with or without an image
callCheckImage ==
    IF originalImage = NULL
    THEN returnEarly("checkImage:return")
    ELSE nChecks < MaxChecks /\ checkImage

\* processImage called, with or without an image
callProcessImage ==
    IF ~ProcessImageProceeds
    THEN returnEarly("processImage:return")
    ELSE nProcesses < MaxProcesses /\ processImage

\* handleDimensionChange called, with or without an image
callHandleDimensionChange(field, value) ==
    /\ dimensions' = handleDimensionChange(field, value)
    /\ lastEvent' = [op |-> "handleDimensionChange", field |-> field, value |-> value]
    /\ UNCHANGED <<originalImage, originalDimensions, state, checkState, fixOptions,
                   inFlight, urls, counters, origins>>

\* ----------------------------------------------------------------- download
DownloadButtonShown == ButtonsShown /\ state.processedImage # NULL

\* file.name.replace(/\.[^/.]+$/, ''): the name without its last extension
WithoutExtension(name) == IF Len(name) > 1 THEN SubSeq(name, 1, Len(name) - 1) ELSE name

\* link.download, when downloadImage creates the link
DownloadName ==
    IF state.processedImage # NULL /\ originalImage # NULL
    THEN Some([prefix |-> "processed_",
               name |-> WithoutExtension(The(originalImage).file.name),
               width |-> dimensions.width, height |-> dimensions.height,
               extension |-> "jpg"])
    ELSE NULL

downloadImage ==
    /\ DownloadButtonShown
    /\ lastEvent' = Event("downloadImage")
    /\ UNCHANGED <<component, inFlight, urls, counters, origins>>

\* -------------------------------------------------------------------- reset
\* fault: reset revokes nothing
Revoked_nothing == urls

\* URL.revokeObjectURL(state.processedImage), if there is one
Revoked == IF state.processedImage # NULL
           THEN [urls EXCEPT ![The(state.processedImage)] = @ + 1]
           ELSE urls

reset ==
    /\ ButtonsShown
    /\ originalImage' = NULL
    /\ originalDimensions' = NULL
    /\ dimensions' = DefaultDimensions
    /\ state' = IdleState
    /\ checkState' = IdleCheckState
    /\ fixOptions' = AllFixes
    /\ urls' = Revoked
    /\ resultsFrom' = NULL
    /\ artifactFrom' = NULL
    /\ lastEvent' = Event("reset")
    /\ UNCHANGED <<inFlight, counters>>

\* ----------------------------------------------------------- specifications
\* The workflow: every handler and callback.  One image, one entry in the
\* width input, one non-success response and two check outcomes keep the
\* interleavings of uploads, resets, requests and responses within reach;
\* the fix selection is edited through the None quick action.
WorkflowImages == { i \in Images : i.width = 2000 }
WorkflowOutcomes ==
    { o \in CheckOutcomes : o.dimension_check /\ o.background_check = o.alignment_check }
WorkflowResponses == { r \in ErrorResponses : r.status = "500" }
WorkflowSizes == OutputSizes

Next ==
    \/ onDropRejected
    \/ \E image \in WorkflowImages : onDropAccepted(image)
    \/ \E file \in readers : imgOnload(file)
    \/ \E file \in readers : imgUndecodable(file)
    \/ ChangeDimension("width", 800)
    \/ ClickCheck
    \/ \E call \in checkCalls, outcome \in WorkflowOutcomes : checkImageOk(call, outcome)
    \/ \E call \in checkCalls, response \in WorkflowResponses : checkImageNotOk(call, response)
    \/ SelectNone
    \/ ClickProcess
    \/ \E call \in processCalls : processImageOk(call)
    \/ \E call \in processCalls, response \in WorkflowResponses : processImageNotOk(call, response)
    \/ \E d \in decoding, size \in WorkflowSizes : processedOnload(d, size)
    \/ \E d \in decoding : processedOnerror(d)
    \/ \E call \in processCalls : processImageNetworkError(call)
    \/ downloadImage
    \/ reset

Spec == Init /\ [][Next]_vars

\* The workflow with a service that answers every request and a decoder
\* that reports on every blob: fetch settles and an Image fires load or error.
CheckAnswered ==
    \E call \in checkCalls :
        \/ \E outcome \in WorkflowOutcomes : checkImageOk(call, outcome)
        \/ \E response \in WorkflowResponses : checkImageNotOk(call, response)

ProcessAnswered ==
    \E call \in processCalls :
        \/ processImageOk(call)
        \/ \E response \in WorkflowResponses : processImageNotOk(call, response)
        \/ processImageNetworkError(call)

DecodeReported ==
    \E d \in decoding :
        \/ \E size \in WorkflowSizes : processedOnload(d, size)
        \/ processedOnerror(d)

SpecLive ==
    /\ Init
    /\ [][Next]_vars
    /\ WF_vars(CheckAnswered)
    /\ WF_vars(ProcessAnswered)
    /\ WF_vars(DecodeReported)

\* The handlers called as operations, whether or not their button is
\* rendered or enabled: checkImage and processImage run their own guards.
NextDirect ==
    \/ \E image \in WorkflowImages : onDropAccepted(image)
    \/ \E file \in readers : imgOnload(file)
    \/ callCheckImage
    \/ \E call \in checkCalls, outcome \in WorkflowOutcomes : checkImageOk(call, outcome)
    \/ callProcessImage
    \/ \E call \in processCalls, response \in WorkflowResponses : processImageNotOk(call, response)
    \/ reset

SpecDirect == Init /\ [][NextDirect]_vars

\* The check and the fix selection: every check outcome, every way a check
\* fails, every checkbox and quick action; no processing.
NextFix ==
    \/ \E image \in WorkflowImages : onDropAccepted(image)
    \/ \E file \in readers : imgOnload(file)
    \/ ClickCheck
    \/ \E call \in checkCalls, outcome \in CheckOutcomes : checkImageOk(call, outcome)
    \/ \E call \in checkCalls, response \in ErrorResponses : checkImageNotOk(call, response)
    \/ \E call \in checkCalls : checkImageNetworkError(call)
    \/ \E call \in checkCalls : checkImageUnparsable(call)
    \/ \E call \in checkCalls : checkImageNullBody(call)
    \/ \E category \in FixCategories : ToggleFix(category)
    \/ SelectAll
    \/ SelectNone
    \/ SelectOnlyFailed
    \/ reset

SpecFix == Init /\ [][NextFix]_vars

\* The dimension editor: every image, both inputs, every typed value.
NextEditor ==
    \/ \E image \in Images : onDropAccepted(image)
    \/ \E file \in readers : imgOnload(file)
    \/ \E field \in Fields, typed \in TypedValues : ChangeDimension(field, typed)
    \/ reset

SpecEditor == Init /\ [][NextEditor]_vars

\* The dimension editor called as an operation, whether or not the Target
\* Size inputs are rendered: handleDimensionChange picks its own branch.
NextEditorDirect ==
    \/ \E image \in Images : onDropAccepted(image)
    \/ \E file \in readers : imgOnload(file)
    \/ \E field \in Fields, value \in EnteredValues : callHandleDimensionChange(field, value)
    \/ reset

SpecEditorDirect == Init /\ [][NextEditorDirect]_vars

\* ------------------------------------------- the page without a check step
\* src/client/app/page.tsx keeps three cells, originalImage,
\* originalDimensions and state; it has no target size, no check and no fix
\* selection, so those variables stay as they start.
page_Init ==
    /\ originalImage = NULL
    /\ originalDimensions = NULL
    /\ state = IdleState
    /\ dimensions = DefaultDimensions
    /\ checkState = IdleCheckState
    /\ fixOptions = AllFixes
    /\ readers = {}
    /\ checkCalls = {}
    /\ processCalls = {}
    /\ decoding = {}
    /\ urls = <<>>
    /\ nUploads = 0
    /\ nChecks = 0
    /\ nProcesses = 0
    /\ resultsFrom = NULL
    /\ artifactFrom = NULL
    /\ lastEvent = Event("mount")

\* the cells and history this page does not have
page_absent == <<dimensions, checkState, fixOptions, checkCalls, nChecks, resultsFrom>>

\* {!originalImage ? ( <upload area> ) : ( <panels> )}
page_UploadAreaShown == originalImage = NULL

page_onDropRejected ==
    /\ page_UploadAreaShown
    /\ state' = [state EXCEPT !.error = Some(<<"Please upload a valid image file">>)]
    /\ lastEvent' = Event("onDrop:rejected")
    /\ UNCHANGED <<originalImage, originalDimensions, readers, processCalls, decoding,
                   urls, nUploads, nProcesses, artifactFrom, page_absent>>

page_onDropAccepted(image) ==
    /\ page_UploadAreaShown
    /\ nUploads < MaxUploads
    /\ Cardinality(readers) < MaxReaders
    /\ nUploads' = nUploads + 1
    /\ readers' = readers \cup
           { [id |-> nUploads + 1, name |-> image.name,
              natural |-> [width |-> image.width, height |-> image.height]] }
    /\ lastEvent' = Event("onDrop:accepted")
    /\ UNCHANGED <<originalImage, originalDimensions, state, processCalls, decoding,
                   urls, nProcesses, artifactFrom, page_absent>>

\* reader.onload, then img.onload
page_imgOnload(file) ==
    /\ file \in readers
    /\ readers' = readers \ {file}
    /\ originalImage' = Some([file |-> file, preview |-> file.id])
    /\ originalDimensions' = Some(file.natural)
    /\ state' = IdleState
    /\ artifactFrom' = NULL
    /\ lastEvent' = Event("onDrop:loaded")
    /\ UNCHANGED <<processCalls, decoding, urls, nUploads, nProcesses, page_absent>>

\* the buttons are rendered only while an image is loaded
page_ButtonsShown == originalImage # NULL

\* disabled={state.isProcessing}
page_ProcessButtonEnabled == page_ButtonsShown /\ ~state.isProcessing

\* processImage up to its await: the guard, the flag and the request, which
\* carries the file alone
page_processImage ==
    /\ originalImage # NULL
    /\ state' = [state EXCEPT !.isProcessing = TRUE, !.error = NULL]
    /\ processCalls' = processCalls \cup
           { [id |-> nProcesses + 1, file |-> The(originalImage).file] }
    /\ nProcesses' = nProcesses + 1
    /\ lastEvent' = Event("processImage")
    /\ UNCHANGED <<originalImage, originalDimensions, readers, decoding, urls,
                   nUploads, artifactFrom, page_absent>>

page_ClickProcess ==
    /\ page_ProcessButtonEnabled
    /\ nProcesses < MaxProcesses
    /\ page_processImage

\* the response is ok: its blob gets an object URL and an Image starts decoding it
page_processImageOk(call) ==
    /\ call \in processCalls
    /\ processCalls' = processCalls \ {call}
    /\ urls' = (call.id :> 0) @@ urls
    /\ decoding' = decoding \cup {[url |-> call.id, call |-> call]}
    /\ lastEvent' = Event("processImage:ok")
    /\ UNCHANGED <<originalImage, originalDimensions, state, readers,
                   nUploads, nProcesses, artifactFrom, page_absent>>

\* the catch block of processImage
page_processCatch(message) ==
    [state EXCEPT !.isProcessing = FALSE, !.error = Some(message)]

\* throw new Error(`Processing failed: ${response.status}`)
page_ProcessingFailedError(response) == <<"Processing failed: ", response.status>>

\* the response is not ok
page_processImageNotOk(call, response) ==
    /\ call \in processCalls
    /\ processCalls' = processCalls \ {call}
    /\ state' = page_processCatch(page_ProcessingFailedError(response))
    /\ lastEvent' = Event("processImage:notOk")
    /\ UNCHANGED <<originalImage, originalDimensions, readers, decoding, urls,
                   nUploads, nProcesses, artifactFrom, page_absent>>

\* fetch rejects: no response at all
page_processImageNetworkError(call) ==
    /\ call \in processCalls
    /\ processCalls' = processCalls \ {call}
    /\ state' = page_processCatch(<<"Failed to fetch">>)
    /\ lastEvent' = Event("processImage:networkError")
    /\ UNCHANGED <<originalImage, originalDimensions, readers, decoding, urls,
                   nUploads, nProcesses, artifactFrom, page_absent>>

\* img.onload of the processed image
page_processedOnload(d, size) ==
    /\ d \in decoding
    /\ decoding' = decoding \ {d}
    /\ state' = [state EXCEPT !.isProcessing = FALSE,
                              !.processedImage = Some(d.url),
                              !.processedImageDimensions = Some(size)]
    /\ artifactFrom' = Some(d.call)
    /\ lastEvent' = Event("processImage:onload")
    /\ UNCHANGED <<originalImage, originalDimensions, readers, processCalls, urls,
                   nUploads, nProcesses, page_absent>>

\* the blob does not decode: the Image fires error, and this page sets no
\* img.onerror, so no cell changes
page_processedUndecodable(d) ==
    /\ d \in decoding
    /\ decoding' = decoding \ {d}
    /\ lastEvent' = Event("processImage:undecodable")
    /\ UNCHANGED <<originalImage, originalDimensions, state, readers, processCalls, urls,
                   nUploads, nProcesses, artifactFrom, page_absent>>

\* link.download = `processed_${originalImage.file.name}`
page_DownloadName ==
    IF state.processedImage # NULL /\ originalImage # NULL
    THEN Some([prefix |-> "processed_", name |-> The(originalImage).file.name])
    ELSE NULL

page_downloadImage ==
    /\ page_ButtonsShown
    /\ state.processedImage # NULL
    /\ lastEvent' = Event("downloadImage")
    /\ UNCHANGED <<originalImage, originalDimensions, state, readers, processCalls,
                   decoding, urls, nUploads, nProcesses, artifactFrom, page_absent>>

\* reset empties the three cells, then revokes the processed image's URL
page_reset ==
    /\ page_ButtonsShown
    /\ originalImage' = NULL
    /\ originalDimensions' = NULL
    /\ state' = IdleState
    /\ urls' = IF state.processedImage # NULL
               THEN [urls EXCEPT ![The(state.processedImage)] = @ + 1]
               ELSE urls
    /\ artifactFrom' = NULL
    /\ lastEvent' = Event("reset")
    /\ UNCHANGED <<readers, processCalls, decoding, nUploads, nProcesses, page_absent>>

page_Next ==
    \/ page_onDropRejected
    \/ \E image \in WorkflowImages : page_onDropAccepted(image)
    \/ \E file \in readers : page_imgOnload(file)
    \/ page_ClickProcess
    \/ \E call \in processCalls : page_processImageOk(call)
    \/ \E call \in processCalls, response \in ErrorResponses :
           page_processImageNotOk(call, response)
    \/ \E call \in processCalls : page_processImageNetworkError(call)
    \/ \E d \in decoding, size \in OutputSizes : page_processedOnload(d, size)
    \/ \E d \in decoding : page_processedUndecodable(d)
    \/ page_downloadImage
    \/ page_reset

\* the service answers every request and the decoder reports on every blob
page_ProcessAnswered ==
    \E call \in processCalls :
        \/ page_processImageOk(call)
        \/ \E response \in ErrorResponses : page_processImageNotOk(call, response)
        \/ page_processImageNetworkError(call)

page_DecodeReported ==
    \E d \in decoding :
        \/ \E size \in OutputSizes : page_processedOnload(d, size)
        \/ page_processedUndecodable(d)

SpecPage ==
    /\ page_Init
    /\ [][page_Next]_vars
    /\ WF_vars(page_ProcessAnswered)
    /\ WF_vars(page_DecodeReported)

\* ------------------------------------------------------------------- claims
Contains(message, part) == \E i \in DOMAIN message : message[i] = part

\* n / d rounded to the nearest integer, halves up, in exact arithmetic
RoundHalfUp(n, d) == (2 * n + d) \div (2 * d)

Abs(n) == IF n < 0 THEN 0 - n ELSE n

\* the Empty state of the workflow
Empty ==
    /\ originalImage = NULL
    /\ originalDimensions = NULL
    /\ dimensions = DefaultDimensions
    /\ checkState.results = NULL
    /\ state.processedImage = NULL
    /\ state.processedImageDimensions = NULL
    /\ fixOptions = AllFixes
    /\ state.error = NULL
    /\ checkState.error = NULL
    /\ ~checkState.isChecking
    /\ ~state.isProcessing

\* C1 as stated: the process operation itself refuses to send a request
\* while no check result is stored.
C1_GuardInProcessImage == checkState.results = NULL => ~ProcessImageProceeds

\* C1 amended: no process request is sent while no check result is stored,
\* because the Process button is disabled then; a request that has just been
\* sent was sent with results stored.
C1_NoRequestWithoutResults ==
    /\ checkState.results = NULL => ~ProcessButtonEnabled
    /\ lastEvent.op = "processImage" => checkState.results # NULL

C1_Witness ==
    /\ originalImage # NULL
    /\ checkState.results = NULL
    /\ ~state.isProcessing
    /\ processCalls = {}
    /\ nChecks > 0

\* C2: right after a successful check response is applied, each fix flag is
\* the negation of the stored result of its check, whatever the selection
\* was before.
C2_SelectionNegatesResults ==
    lastEvent.op = "checkImage:ok" =>
        /\ checkState.results # NULL
        /\ fixOptions.fix_dimensions = ~The(checkState.results).dimension_check
        /\ fixOptions.fix_background = ~The(checkState.results).background_check
        /\ fixOptions.fix_alignment = ~The(checkState.results).alignment_check

\* a second response of one session, the first having shown the checkboxes
C2_Witness ==
    /\ lastEvent.op = "checkImage:ok"
    /\ The(resultsFrom).id = 2
    /\ nUploads = 1
    /\ fixOptions \notin {AllFixes, NoFixes}

\* C3: right after an upload has loaded, the new image is stored, the target
\* size is 1200 x 1200, there are no results, no artifact and no error, no
\* check or process is flagged as running, and every fix is selected.
C3_UploadStartsAfresh ==
    lastEvent.op = "onDrop:loaded" =>
        /\ originalImage # NULL
        /\ originalDimensions = Some(The(originalImage).file.natural)
        /\ The(originalImage).file \notin readers
        /\ dimensions = [width |-> 1200, height |-> 1200]
        /\ checkState.results = NULL
        /\ state.processedImage = NULL
        /\ state.processedImageDimensions = NULL
        /\ state.error = NULL
        /\ checkState.error = NULL
        /\ ~checkState.isChecking
        /\ ~state.isProcessing
        /\ fixOptions = [fix_dimensions |-> TRUE, fix_background |-> TRUE, fix_alignment |-> TRUE]

\* the second file loaded, after a session with a check and a process
C3_Witness ==
    /\ lastEvent.op = "onDrop:loaded"
    /\ The(originalImage).file.id = 2
    /\ nChecks > 0
    /\ nProcesses > 0

\* C4: a reset leaves the Empty state and revokes the object URL of the
\* processed image that was stored.
C4_ResetEmptiesAndReleases ==
    [][lastEvent'.op = "reset" =>
          /\ Empty'
          /\ state.processedImage # NULL =>
                 urls'[The(state.processedImage)] = urls[The(state.processedImage)] + 1]_vars

C4_Witness ==
    /\ lastEvent.op = "reset"
    /\ \E u \in DOMAIN urls : urls[u] = 1

\* C5 as stated: an edit of the width to v stores height round(v * H / W),
\* an edit of the height to v stores width round(v * W / H), halves up.
C5_ExactRounding ==
    (lastEvent.op = "handleDimensionChange" /\ originalDimensions # NULL) =>
        LET W == The(originalDimensions).width
            H == The(originalDimensions).height
            v == lastEvent.value
        IN  IF lastEvent.field = "width"
            THEN dimensions = [width |-> v, height |-> RoundHalfUp(v * H, W)]
            ELSE dimensions = [width |-> RoundHalfUp(v * W, H), height |-> v]

C8_WithinRange ==
    /\ dimensions.width \in 1..5000
    /\ dimensions.height \in 1..5000

\* C9 as stated: while an image is loaded the target size is ratio-locked,
\* one field being the exactly rounded image of the other.
C9_RatioLocked ==
    originalDimensions # NULL =>
        LET W == The(originalDimensions).width
            H == The(originalDimensions).height
        IN  \/ dimensions.height = RoundHalfUp(dimensions.width * H, W)
            \/ dimensions.width = RoundHalfUp(dimensions.height * W, H)

\* C9 amended: while an image is loaded the target size is the 1200 x 1200
\* default or has one field within half a pixel of the other field scaled
\* by the image's ratio.
C9_DefaultOrWithinHalf ==
    originalDimensions # NULL =>
        LET W == The(originalDimensions).width
            H == The(originalDimensions).height
        IN  \/ dimensions = [width |-> 1200, height |-> 1200]
            \/ 2 * Abs(dimensions.height * W - dimensions.width * H) <= W
            \/ 2 * Abs(dimensions.width * H - dimensions.height * W) <= H

\* an edit whose exact result is a half: 35 * 300 / 1400 = 7.5
C9_Witness ==
    /\ lastEvent = [op |-> "handleDimensionChange", field |-> "width", value |-> 35]
    /\ originalDimensions = Some([width |-> 1400, height |-> 300])
    /\ dimensions.width = 35

\* C10 as stated: while a check request is outstanding, isChecking is true.
C10_OutstandingImpliesChecking == checkCalls # {} => checkState.isChecking

\* C11 as stated: at most one process request is outstanding at any time.
C11_OneProcessOutstanding == Cardinality(processCalls) <= 1

\* C12 as stated: a processed image is stored only while check results are
\* stored.
C12_ArtifactImpliesResults == state.processedImage # NULL => checkState.results # NULL

\* C13 as stated: when a loaded processed image replaces a stored one, the
\* object URL of the stored one has been revoked by the end of that step.
C13_SupersededIsReleased ==
    [][(/\ lastEvent'.op = "processImage:onload"
        /\ state.processedImage # NULL
        /\ state'.processedImage # state.processedImage) =>
           urls'[The(state.processedImage)] >= 1]_vars

\* C14 as stated: no object URL is revoked twice, and right after a reset
\* with no request, decode or read outstanding every object URL created so
\* far has been revoked.
C14_ReleasedExactlyOnce ==
    /\ \A u \in DOMAIN urls : urls[u] <= 1
    /\ (/\ lastEvent.op = "reset"
        /\ checkCalls = {}
        /\ processCalls = {}
        /\ decoding = {}
        /\ readers = {}) =>
           \A u \in DOMAIN urls : urls[u] = 1

\* C15 as stated: stored check results answer a request sent for the image
\* now loaded, and so does a stored processed image; with no image loaded
\* there are neither.
C15_NothingCrossesSessions ==
    /\ checkState.results # NULL =>
           /\ originalImage # NULL
           /\ resultsFrom # NULL
           /\ The(resultsFrom).file = The(originalImage).file
    /\ state.processedImage # NULL =>
           /\ originalImage # NULL
           /\ artifactFrom # NULL
           /\ The(artifactFrom).file = The(originalImage).file

\* C16 as stated: right after a dropped file is rejected, or fails to decode,
\* an upload error is stored.
C16_InvalidFileRecorded ==
    lastEvent.op \in {"onDrop:rejected", "onDrop:undecodable"} => state.error # NULL

\* C17: no step of processing (sending the request, receiving a response,
\* the processed image loading or failing to load) changes the fix selection,
\* the check results or the target size.
C17_ProcessingKeepsSelection ==
    [][lastEvent'.op \in {"processImage", "processImage:ok", "processImage:onload",
                          "processImage:notOk", "processImage:networkError",
                          "processImage:onerror"} =>
          /\ fixOptions' = fixOptions
          /\ checkState.results' = checkState.results
          /\ dimensions' = dimensions]_vars

\* a processed image stored next to a selection the user has cleared
C17_Witness ==
    /\ lastEvent.op = "processImage:onload"
    /\ fixOptions = NoFixes
    /\ checkState.results # NULL
    /\ AutoSelected(The(checkState.results)) # NoFixes

\* C18: an edit of the target size changes the target size only: the image,
\* the check results with their target_dimensions, the fix selection, the
\* processed image, the errors, the flags and the requests already sent stay
\* as they were.
C18_EditChangesDimensionsOnly ==
    [][lastEvent'.op = "handleDimensionChange" =>
          UNCHANGED <<originalImage, originalDimensions, state, checkState, fixOptions,
                      readers, checkCalls, processCalls, decoding, urls>>]_vars

\* an edit made with results for another size stored and a request in flight
C18_Witness ==
    /\ lastEvent.op = "handleDimensionChange"
    /\ checkState.results # NULL
    /\ The(checkState.results).target_dimensions # dimensions
    /\ \E call \in processCalls :
           [width |-> call.target_width, height |-> call.target_height] # dimensions

\* C19: a checkbox flips the flag of its category and changes nothing else:
\* the other two flags, the check results, the target size and the processed
\* image stay as they were and no request is sent.
C19_ToggleSetsOneFlag ==
    [][lastEvent'.op = "toggleFix" =>
          /\ fixOptions' = [fixOptions EXCEPT ![lastEvent'.field] = ~fixOptions[lastEvent'.field]]
          /\ UNCHANGED <<checkState, dimensions, state, checkCalls, processCalls,
                         nChecks, nProcesses>>]_vars

\* the fix of a passed check selected by its checkbox
C19_Witness ==
    /\ lastEvent = [Event("toggleFix") EXCEPT !.field = "fix_background"]
    /\ fixOptions.fix_background
    /\ The(checkState.results).background_check

\* C20: right after Only Failed each flag is the negation of the stored
\* result of its check, right after All every flag is true, right after None
\* every flag is false, and right after a successful check Only Failed would
\* store the selection already held.
C20_QuickActions ==
    /\ lastEvent.op = "selectOnlyFailed" =>
           /\ fixOptions.fix_dimensions = ~The(checkState.results).dimension_check
           /\ fixOptions.fix_background = ~The(checkState.results).background_check
           /\ fixOptions.fix_alignment = ~The(checkState.results).alignment_check
    /\ lastEvent.op = "selectAll" =>
           fixOptions = [fix_dimensions |-> TRUE, fix_background |-> TRUE, fix_alignment |-> TRUE]
    /\ lastEvent.op = "selectNone" =>
           fixOptions = [fix_dimensions |-> FALSE, fix_background |-> FALSE, fix_alignment |-> FALSE]
    /\ lastEvent.op = "checkImage:ok" => OnlyFailed(The(checkState.results)) = fixOptions

\* Only Failed applied to mixed results
C20_Witness ==
    /\ lastEvent.op = "selectOnlyFailed"
    /\ fixOptions \notin {AllFixes, NoFixes}
    /\ nChecks = 1

\* C21 as stated: right after a successful check response no check error is
\* stored.
C21_SuccessLeavesNoCheckError == lastEvent.op = "checkImage:ok" => checkState.error = NULL

\* C22 as stated: whenever a processing error is stored its message is on
\* display.
C22_ProcessErrorShown == state.error # NULL => StateErrorShown

\* C23: with every request answered and every decode reported, a check
\* flagged as running leads to the flag cleared with results or an error
\* stored, and a process flagged as running leads to the flag cleared with a
\* processed image or an error stored.
C23_CallsResolve ==
    /\ checkState.isChecking ~>
           (~checkState.isChecking /\ (checkState.results # NULL \/ checkState.error # NULL))
    /\ state.isProcessing ~>
           (~state.isProcessing /\ (state.processedImage # NULL \/ state.error # NULL))

\* a process call resolved by the decoder reporting an error
C23_Witness ==
    /\ lastEvent.op = "processImage:onerror"
    /\ ~state.isProcessing
    /\ state.error # NULL
    /\ processCalls = {}
    /\ decoding = {}

CheckFailures == {"checkImage:notOk", "checkImage:networkError", "checkImage:unparsable"}

ProcessFailures == {"processImage:notOk", "processImage:networkError", "processImage:onerror"}

FixEdits == {"toggleFix", "selectAll", "selectNone", "selectOnlyFailed"}

\* C24: in every state the upload area or the Reset button is on offer,
\* whatever is in flight; right after a failed check the Check button of a
\* loaded image is enabled, and right after a failed process the Process
\* button of a loaded image with results is enabled.
C24_AlwaysResponsive ==
    /\ UploadAreaShown \/ ButtonsShown
    /\ (lastEvent.op \in CheckFailures /\ originalImage # NULL) => CheckButtonEnabled
    /\ (lastEvent.op \in ProcessFailures /\ originalImage # NULL /\ checkState.results # NULL) =>
           ProcessButtonEnabled

\* a failed process with a check still in flight: Reset and Process on offer
C24_Witness ==
    /\ lastEvent.op \in ProcessFailures
    /\ checkCalls # {}
    /\ ButtonsShown
    /\ ProcessButtonEnabled

\* C25: a process request is sent with the loaded file, the three fix flags
\* and the target size held when it is sent, and no later edit of the fix
\* selection or of the target size changes a request already sent.
C25_RequestCarriesCurrentValues ==
    [][/\ lastEvent'.op = "processImage" =>
              \E call \in processCalls' \ processCalls :
                  /\ processCalls' = processCalls \cup {call}
                  /\ call.file = The(originalImage).file
                  /\ call.fix_dimensions = fixOptions.fix_dimensions
                  /\ call.fix_background = fixOptions.fix_background
                  /\ call.fix_alignment = fixOptions.fix_alignment
                  /\ call.target_width = dimensions.width
                  /\ call.target_height = dimensions.height
       /\ lastEvent'.op \in FixEdits \cup {"handleDimensionChange"} =>
              processCalls' = processCalls]_vars

\* a request in flight whose size and flags have since been edited
C25_Witness ==
    /\ originalImage # NULL
    /\ \E call \in processCalls :
           /\ call.file = The(originalImage).file
           /\ call.target_width # dimensions.width
           /\ call.fix_background # fixOptions.fix_background

\* C26 as stated: the size in the download name is the target size sent in
\* the request that produced the processed image now stored.
C26_NameCarriesAppliedSize ==
    lastEvent.op = "downloadImage" =>
        /\ DownloadName # NULL
        /\ artifactFrom # NULL
        /\ The(DownloadName).width = The(artifactFrom).target_width
        /\ The(DownloadName).height = The(artifactFrom).target_height

\* C27: the size stored with a processed image is the pixel size its blob
\* decodes to, whichever size that is and whatever target size was sent.
C27_StoredSizeIsDecodedSize ==
    [][\A d \in decoding, size \in OutputSizes :
           processedOnload(d, size) =>
               /\ state'.processedImage = Some(d.url)
               /\ state'.processedImageDimensions = Some(size)]_vars

\* a processed image whose size is not the one asked for
C27_Witness ==
    /\ lastEvent.op = "processImage:onload"
    /\ artifactFrom # NULL
    /\ The(state.processedImageDimensions) #
           [width |-> The(artifactFrom).target_width, height |-> The(artifactFrom).target_height]

\* C28 as stated: a check and a process are never flagged as running, or
\* outstanding, together.
C28_NeverBothInFlight ==
    /\ ~(checkState.isChecking /\ state.isProcessing)
    /\ ~(checkCalls # {} /\ processCalls # {})

C30_NoImageNoEffect ==
    [][lastEvent'.op \in {"checkImage:return", "processImage:return"} =>
          /\ originalImage = NULL
          /\ UNCHANGED <<component, inFlight, urls, counters>>]_vars

\* processImage called on the empty page while results of a request sent
\* before the reset are stored
C30_Witness ==
    /\ lastEvent.op = "processImage:return"
    /\ originalImage = NULL
    /\ checkState.results # NULL
    /\ processCalls = {}
\* C31: a dimension edit made while no image is loaded stores the value in
\* the edited field and leaves the other field as it was
C31_EditWithoutImage ==
    [][(lastEvent'.op = "handleDimensionChange" /\ originalDimensions = NULL)
        => \A field \in Fields :
               dimensions'[field] = IF field = lastEvent'.field
                                    THEN lastEvent'.value
                                    ELSE dimensions[field]]_vars

\* both fields were edited without an image, the second edit keeping the first
C31_Witness ==
    /\ originalImage = NULL
    /\ lastEvent.op = "handleDimensionChange"
    /\ lastEvent.field = "height"
    /\ dimensions = [width |-> 35, height |-> 5000]

\* C32: a process request carries the width and height that were sent in
\* the check request whose results are on display
C32_ProcessSizeIsCheckedSize ==
    (lastEvent.op = "processImage" /\ checkState.results # NULL)
    => \A call \in processCalls :
           call.id = nProcesses
           => /\ resultsFrom # NULL
              /\ call.target_width = The(resultsFrom).target_width
              /\ call.target_height = The(resultsFrom).target_height

\* a width edit with an image loaded, followed by a height edit that enters
\* the height the width edit produced
EchoedHeight ==
    /\ originalDimensions # NULL
    /\ originalDimensions' = originalDimensions
    /\ lastEvent.op = "handleDimensionChange"
    /\ lastEvent.field = "width"
    /\ lastEvent'.op = "handleDimensionChange"
    /\ lastEvent'.field = "height"
    /\ lastEvent'.value = dimensions.height

\* C33 as stated: with an image loaded, entering into the height input the
\* height that a width edit of v produced leaves the width equal to v
C33_RoundTripRestoresWidth ==
    [][EchoedHeight => dimensions'.width = lastEvent.value]_vars

\* C33: with an image loaded, entering into the height input the height
\* that a width edit of v produced gives a width within W/(2H) + 1/2 of v,
\* and v itself when v * H / W is an integer, W x H being the natural size
\* of the image
C33_RoundTripWithinRounding ==
    [][EchoedHeight
        => LET natural == The(originalDimensions)
           IN  /\ 2 * natural.height * Abs(dimensions'.width - lastEvent.value)
                      <= natural.width + natural.height
               /\ (lastEvent.value * natural.height) % natural.width = 0
                      => dimensions'.width = lastEvent.value]_vars

\* the height 400 that a width edit of 800 produced on the 2000 x 1000
\* image has been entered into the height input
C33_Witness ==
    /\ originalDimensions = Some([width |-> 2000, height |-> 1000])
    /\ lastEvent = [op |-> "handleDimensionChange", field |-> "height", value |-> 400]
    /\ dimensions = [width |-> 800, height |-> 400]

\* C34: on the page without a check step, whenever isProcessing is true it
\* is false again later, whatever the service answers and whether or not
\* the bytes it returns decode as an image
C34_ProcessingEnds == state.isProcessing ~> ~state.isProcessing
====
